---------------------------- MODULE Spec2Model ----------------------------
(***************************************************************************)
(* Model of the chat relay of server.go: the ChatServer (history, client  *)
(* registry, broadcast channel, one mutex), its four RPC methods, the      *)
(* broadcaster goroutine and the per-recipient delivery goroutines.        *)
(*                                                                         *)
(* A thread's position is its pc.  A critical section that changes two     *)
(* things takes two steps (the first with Lock, the last with Unlock), so  *)
(* that the states in between, with the mutex held, are states of the      *)
(* model.  rpc.Dial, Client.Call and Client.Close are the                  *)
(* net/rpc library: Dial yields a fresh handle or an error, Call on a      *)
(* handle that was closed returns ErrShutdown and otherwise succeeds or    *)
(* fails as the network decides, Close may be called any number of times.  *)
(***************************************************************************)
EXTENDS Integers, Sequences, FiniteSets, TLC

VARIABLES
    mu,         \* sync.Mutex: Free or the thread that holds it
    msgs,       \* c.msgs: the history, a sequence of strings
    clients,    \* c.clients: map from identifier to endpoint handle
    broadcast,  \* c.broadcast: the buffered channel, a sequence of MessageArgs
    closes,     \* per endpoint handle dialled so far: number of Close() calls
    owner,      \* per endpoint handle dialled so far: the identifier it was dialled for
    pc,         \* per RPC-serving thread: position in its method
    args,       \* per RPC-serving thread: the call's arguments
    cli,        \* per RPC-serving thread: the local cli (0: none)
    reply,      \* per RPC-serving thread: reply.Messages
    err,        \* per RPC-serving thread: the method's returned error (TRUE: non-nil)
    dpc,        \* broadcaster goroutine: position
    dmsg,       \* broadcaster goroutine: msg
    dsnap,      \* broadcaster goroutine: the local map clients
    tasks,      \* delivery goroutines started so far, in start order
    ncalls,     \* number of RPC calls begun (bounds the run)
    enqueued,   \* history variable: every message sent on the channel, in order
    dequeued,   \* history variable: every message received from the channel, in order
    snaps,      \* history variable: the snapshot taken for each dequeued message
    evicted,    \* history variable: ids whose failure handler finished, not registered since
    unregd,     \* history variable: ids removed by Unregister, not registered since
    left,       \* history variable: ids in unregd for which an Unregister has returned
    devicted,   \* history variable: evicted at the last dequeue, minus ids registered since
    dleft       \* history variable: left at the last dequeue, minus ids registered since

vars == <<mu, msgs, clients, broadcast, closes, owner, pc, args, cli, reply, err,
          dpc, dmsg, dsnap, tasks, ncalls, enqueued, dequeued, snaps,
          evicted, unregd, left, devicted, dleft>>

srv    == <<msgs, clients, broadcast>>
eps    == <<closes, owner>>
disp   == <<dpc, dmsg, dsnap>>
ghost  == <<evicted, unregd, left, devicted, dleft>>
qlog   == <<enqueued, dequeued>>

----------------------------------------------------------------------------
(* Bounds of the model *)

\* number of RPC calls begun in one run
MaxCalls == 3

\* capacity of the broadcast channel; server.go:37 makes it 100, the model
\* scales it down so that a full channel is reached within MaxCalls calls
QueueCap == 2

\* the RPC-serving threads (rpc.ServeConn serves each call in its own goroutine)
Callers == {1, 2}

\* client identifiers and message texts the callers draw their arguments from
IDs == {"a", "b"}
Texts == {"hi"}

----------------------------------------------------------------------------
(* Threads, as holders of the mutex *)

Free       == <<"free", 0>>
CallerT(c) == <<"caller", c>>
DispT      == <<"disp", 0>>
TaskT(t)   == <<"task", t>>

----------------------------------------------------------------------------
(* Pure helpers *)

\* fmt.Sprintf("User %s joined", args.ID)
JoinMsg(id) == "User " \o id \o " joined"

\* fmt.Sprintf("User %s left", args.ID)
LeaveMsg(id) == "User " \o id \o " left"

\* fmt.Sprintf("%s: %s", args.Sender, args.Text)
Entry(sender, text) == sender \o ": " \o text

\* MessageArgs
MessageArgs(sender, text) == [Sender |-> sender, Text |-> text]

\* append([]string(nil), c.msgs...)
CopyOf(s) == [i \in 1..Len(s) |-> s[i]]

\* delete(m, k)
MapDelete(m, k) == [x \in DOMAIN m \ {k} |-> m[x]]

\* MapPut that keeps the value of a key already present
MapPutIfAbsent(m, k, v) == [x \in DOMAIN m \cup {k} |-> IF x \in DOMAIN m THEN m[x] ELSE v]

\* m[k] = v
MapPut(m, k, v) == [x \in DOMAIN m \cup {k} |-> IF x = k THEN v ELSE m[x]]

IsPrefix(s, t) == Len(s) <= Len(t) /\ \A i \in 1..Len(s) : s[i] = t[i]

Range(s) == {s[i] : i \in DOMAIN s}

\* Line is the line typed at the client program, for the calls it makes
NoArgs == [op |-> "none", ID |-> "", Sender |-> "", Text |-> "", Line |-> ""]

----------------------------------------------------------------------------
Init ==
    /\ mu = Free
    /\ msgs = <<>>
    /\ clients = <<>>
    /\ broadcast = <<>>
    /\ closes = <<>>
    /\ owner = <<>>
    /\ pc = [c \in Callers |-> "idle"]
    /\ args = [c \in Callers |-> NoArgs]
    /\ cli = [c \in Callers |-> 0]
    /\ reply = [c \in Callers |-> <<>>]
    /\ err = [c \in Callers |-> FALSE]
    /\ dpc = "recv"
    /\ dmsg = MessageArgs("", "")
    /\ dsnap = <<>>
    /\ tasks = <<>>
    /\ ncalls = 0
    /\ enqueued = <<>>
    /\ dequeued = <<>>
    /\ snaps = <<>>
    /\ evicted = {}
    /\ unregd = {}
    /\ left = {}
    /\ devicted = {}
    /\ dleft = {}

----------------------------------------------------------------------------
(* The mutex *)

\* c.mu.Lock() by thread t
Lock(t) == mu = Free /\ mu' = t

\* c.mu.Unlock() by thread t
Unlock(t) == mu = t /\ mu' = Free

\* c.mu.Lock(); ...; c.mu.Unlock() within one step of thread t
Locked(t) == mu = Free /\ mu' = Free

----------------------------------------------------------------------------
(* The channel *)

\* ChanSend as a select with a default branch: a full buffer drops the message
ChanSendDrop(m) ==
    /\ broadcast' = IF Len(broadcast) < QueueCap THEN Append(broadcast, m) ELSE broadcast
    /\ enqueued' = Append(enqueued, m)

\* c.broadcast <- m : blocks while the buffer is full
ChanSend(m) ==
    /\ Len(broadcast) < QueueCap
    /\ broadcast' = Append(broadcast, m)
    /\ enqueued' = Append(enqueued, m)

----------------------------------------------------------------------------
(* An RPC arrives: net/rpc starts the method in a goroutine of its own *)

\* The serving goroutines are interchangeable: a call is served by the first
\* one that is not inside a call.
Begin(c, a, first) ==
    /\ pc[c] \in {"idle", "done"}
    /\ \A c2 \in Callers : c2 < c => pc[c2] \notin {"idle", "done"}
    /\ ncalls < MaxCalls
    /\ ncalls' = ncalls + 1
    /\ args' = [args EXCEPT ![c] = a]
    /\ pc' = [pc EXCEPT ![c] = first]
    /\ reply' = [reply EXCEPT ![c] = <<>>]

\* the step of caller c from pc value `from` to `to`
Goto(c, from, to) == pc[c] = from /\ pc' = [pc EXCEPT ![c] = to]

----------------------------------------------------------------------------
(* ChatServer.History *)

CallHistory(c) ==
    /\ Begin(c, [NoArgs EXCEPT !.op = "History"], "hist_lock")
    /\ cli' = [cli EXCEPT ![c] = 0]
    /\ err' = [err EXCEPT ![c] = FALSE]
    /\ UNCHANGED <<mu, srv, eps, disp, tasks, qlog, snaps, ghost>>

\* c.mu.Lock(); reply.Messages = append([]string(nil), c.msgs...); c.mu.Unlock()
HistoryCopy(c) ==
    /\ Goto(c, "hist_lock", "done")
    /\ Locked(CallerT(c))
    /\ reply' = [reply EXCEPT ![c] = CopyOf(msgs)]
    /\ UNCHANGED <<srv, eps, args, cli, err, disp, tasks, ncalls, qlog, snaps, ghost>>

----------------------------------------------------------------------------
(* ChatServer.Send *)

CallSend(c) ==
    /\ \E id \in IDs, t \in Texts :
         Begin(c, [NoArgs EXCEPT !.op = "Send", !.Sender = id, !.Text = t], "send_lock")
    /\ cli' = [cli EXCEPT ![c] = 0]
    /\ err' = [err EXCEPT ![c] = FALSE]
    /\ UNCHANGED <<mu, srv, eps, disp, tasks, qlog, snaps, ghost>>

\* c.mu.Lock(); c.msgs = append(c.msgs, entry)
SendAppend(c) ==
    /\ Goto(c, "send_lock", "send_copy")
    /\ Lock(CallerT(c))
    /\ msgs' = Append(msgs, Entry(args[c].Sender, args[c].Text))
    /\ UNCHANGED <<clients, broadcast, eps, args, cli, reply, err, disp, tasks,
                   ncalls, qlog, snaps, ghost>>

\* SendCopy with the copy taken from the log as it was before the append
SendCopyBeforeAppend(c) ==
    /\ Goto(c, "send_copy", "send_enq")
    /\ Unlock(CallerT(c))
    /\ reply' = [reply EXCEPT ![c] = CopyOf(SubSeq(msgs, 1, Len(msgs) - 1))]
    /\ UNCHANGED <<srv, eps, args, cli, err, disp, tasks, ncalls, qlog, snaps, ghost>>

\* SendCopy that leaves the Unlock to a defer: the mutex stays held across the send
SendCopyKeepsLock(c) ==
    /\ Goto(c, "send_copy", "send_enq")
    /\ mu = CallerT(c)
    /\ reply' = [reply EXCEPT ![c] = CopyOf(msgs)]
    /\ UNCHANGED <<mu, srv, eps, args, cli, err, disp, tasks, ncalls, qlog, snaps, ghost>>

\* reply.Messages = append([]string(nil), c.msgs...); c.mu.Unlock()
SendCopy(c) ==
    /\ Goto(c, "send_copy", "send_enq")
    /\ Unlock(CallerT(c))
    /\ reply' = [reply EXCEPT ![c] = CopyOf(msgs)]
    /\ UNCHANGED <<srv, eps, args, cli, err, disp, tasks, ncalls, qlog, snaps, ghost>>

\* c.broadcast <- args; return nil
SendEnqueue(c) ==
    /\ Goto(c, "send_enq", "done")
    /\ ChanSend(MessageArgs(args[c].Sender, args[c].Text))
    /\ UNCHANGED <<mu, msgs, clients, eps, args, cli, reply, err, disp, tasks, ncalls,
                   dequeued, snaps, ghost>>

----------------------------------------------------------------------------
(* ChatServer.Register *)

CallRegister(c) ==
    /\ \E id \in IDs :
         Begin(c, [NoArgs EXCEPT !.op = "Register", !.ID = id], "reg_dial")
    /\ cli' = [cli EXCEPT ![c] = 0]
    /\ err' = [err EXCEPT ![c] = FALSE]
    /\ UNCHANGED <<mu, srv, eps, disp, tasks, qlog, snaps, ghost>>

\* cli, err := rpc.Dial("tcp", args.Addr) succeeds: a fresh endpoint handle
RegisterDialOk(c) ==
    /\ Goto(c, "reg_dial", "reg_lock")
    /\ cli' = [cli EXCEPT ![c] = Len(closes) + 1]
    /\ closes' = Append(closes, 0)
    /\ owner' = Append(owner, args[c].ID)
    /\ UNCHANGED <<mu, srv, args, reply, err, disp, tasks, ncalls, qlog, snaps, ghost>>

\* RegisterDialFail that still records the join before returning the error
RegisterDialFailJoins(c) ==
    /\ Goto(c, "reg_dial", "done")
    /\ err' = [err EXCEPT ![c] = TRUE]
    /\ msgs' = Append(msgs, JoinMsg(args[c].ID))
    /\ UNCHANGED <<mu, clients, broadcast, eps, args, cli, reply, disp, tasks, ncalls,
                   qlog, snaps, ghost>>

\* rpc.Dial fails: return fmt.Errorf(...)
RegisterDialFail(c) ==
    /\ Goto(c, "reg_dial", "done")
    /\ err' = [err EXCEPT ![c] = TRUE]
    /\ UNCHANGED <<mu, srv, eps, args, cli, reply, disp, tasks, ncalls, qlog, snaps, ghost>>

\* RegisterPut in a critical section of its own, apart from the append
RegisterPutUnlocks(c) ==
    /\ Goto(c, "reg_lock", "reg_append")
    /\ Locked(CallerT(c))
    /\ clients' = MapPut(clients, args[c].ID, cli[c])
    /\ evicted' = evicted \ {args[c].ID}
    /\ unregd' = unregd \ {args[c].ID}
    /\ left' = left \ {args[c].ID}
    /\ devicted' = devicted \ {args[c].ID}
    /\ dleft' = dleft \ {args[c].ID}
    /\ UNCHANGED <<msgs, broadcast, eps, args, cli, reply, err, disp, tasks, ncalls,
                   qlog, snaps>>

\* c.mu.Lock(); c.clients[args.ID] = cli
RegisterPut(c) ==
    /\ Goto(c, "reg_lock", "reg_append")
    /\ Lock(CallerT(c))
    /\ clients' = MapPut(clients, args[c].ID, cli[c])
    /\ evicted' = evicted \ {args[c].ID}
    /\ unregd' = unregd \ {args[c].ID}
    /\ left' = left \ {args[c].ID}
    /\ devicted' = devicted \ {args[c].ID}
    /\ dleft' = dleft \ {args[c].ID}
    /\ UNCHANGED <<msgs, broadcast, eps, args, cli, reply, err, disp, tasks, ncalls,
                   qlog, snaps>>

\* RegisterAppend that starts the log afresh with the join entry
RegisterAppendReset(c) ==
    /\ Goto(c, "reg_append", "reg_enq")
    /\ Unlock(CallerT(c))
    /\ msgs' = <<JoinMsg(args[c].ID)>>
    /\ UNCHANGED <<clients, broadcast, eps, args, cli, reply, err, disp, tasks,
                   ncalls, qlog, snaps, ghost>>

\* RegisterAppend that leaves the Unlock to a defer: the mutex stays held across the send
RegisterAppendKeepsLock(c) ==
    /\ Goto(c, "reg_append", "reg_enq")
    /\ mu = CallerT(c)
    /\ msgs' = Append(msgs, JoinMsg(args[c].ID))
    /\ UNCHANGED <<mu, clients, broadcast, eps, args, cli, reply, err, disp, tasks,
                   ncalls, qlog, snaps, ghost>>

\* c.msgs = append(c.msgs, joinMsg); c.mu.Unlock()
RegisterAppend(c) ==
    /\ Goto(c, "reg_append", "reg_enq")
    /\ Unlock(CallerT(c))
    /\ msgs' = Append(msgs, JoinMsg(args[c].ID))
    /\ UNCHANGED <<clients, broadcast, eps, args, cli, reply, err, disp, tasks,
                   ncalls, qlog, snaps, ghost>>

\* c.broadcast <- MessageArgs{Sender: args.ID, Text: joinMsg}; return nil
RegisterEnqueue(c) ==
    /\ Goto(c, "reg_enq", "done")
    /\ ChanSend(MessageArgs(args[c].ID, JoinMsg(args[c].ID)))
    /\ UNCHANGED <<mu, msgs, clients, eps, args, cli, reply, err, disp, tasks, ncalls,
                   dequeued, snaps, ghost>>

----------------------------------------------------------------------------
(* ChatServer.Unregister *)

CallUnregister(c) ==
    /\ \E id \in IDs :
         Begin(c, [NoArgs EXCEPT !.op = "Unregister", !.ID = id], "unreg_lock")
    /\ cli' = [cli EXCEPT ![c] = 0]
    /\ err' = [err EXCEPT ![c] = FALSE]
    /\ UNCHANGED <<mu, srv, eps, disp, tasks, qlog, snaps, ghost>>

\* UnregisterRemove that closes the endpoint and leaves it in the map
UnregisterRemoveKeeps(c) ==
    /\ Goto(c, "unreg_lock", "unreg_append")
    /\ Lock(CallerT(c))
    /\ IF args[c].ID \in DOMAIN clients
       THEN /\ cli' = [cli EXCEPT ![c] = clients[args[c].ID]]
            /\ closes' = [closes EXCEPT ![clients[args[c].ID]] = @ + 1]
       ELSE UNCHANGED <<cli, closes>>
    /\ UNCHANGED <<srv, owner, args, reply, err, disp, tasks, ncalls, qlog, snaps, ghost>>

\* UnregisterRemove that reports an identifier that is not registered as an error
UnregisterRemoveErrs(c) ==
    /\ Goto(c, "unreg_lock", "unreg_append")
    /\ Lock(CallerT(c))
    /\ err' = [err EXCEPT ![c] = args[c].ID \notin DOMAIN clients]
    /\ IF args[c].ID \in DOMAIN clients
       THEN /\ cli' = [cli EXCEPT ![c] = clients[args[c].ID]]
            /\ closes' = [closes EXCEPT ![clients[args[c].ID]] = @ + 1]
            /\ clients' = MapDelete(clients, args[c].ID)
       ELSE UNCHANGED <<cli, closes, clients>>
    /\ UNCHANGED <<msgs, broadcast, owner, args, reply, disp, tasks, ncalls, qlog,
                   snaps, ghost>>

\* c.mu.Lock(); if cli, ok := c.clients[args.ID]; ok { cli.Close(); delete(c.clients, args.ID) }
UnregisterRemove(c) ==
    /\ Goto(c, "unreg_lock", "unreg_append")
    /\ Lock(CallerT(c))
    /\ IF args[c].ID \in DOMAIN clients
       THEN /\ cli' = [cli EXCEPT ![c] = clients[args[c].ID]]
            /\ closes' = [closes EXCEPT ![clients[args[c].ID]] = @ + 1]
            /\ clients' = MapDelete(clients, args[c].ID)
       ELSE UNCHANGED <<cli, closes, clients>>
    /\ UNCHANGED <<msgs, broadcast, owner, args, reply, err, disp, tasks, ncalls, qlog,
                   snaps, ghost>>

\* UnregisterAppend that records a leave only if an endpoint was removed
UnregisterAppendIfPresent(c) ==
    /\ Goto(c, "unreg_append", "unreg_enq")
    /\ Unlock(CallerT(c))
    /\ msgs' = IF cli[c] # 0 THEN Append(msgs, LeaveMsg(args[c].ID)) ELSE msgs
    /\ unregd' = unregd \cup {args[c].ID}
    /\ UNCHANGED <<clients, broadcast, eps, args, cli, reply, err, disp, tasks,
                   ncalls, qlog, snaps, evicted, left, devicted, dleft>>

\* c.msgs = append(c.msgs, leaveMsg); c.mu.Unlock()
UnregisterAppend(c) ==
    /\ Goto(c, "unreg_append", "unreg_enq")
    /\ Unlock(CallerT(c))
    /\ msgs' = Append(msgs, LeaveMsg(args[c].ID))
    /\ unregd' = unregd \cup {args[c].ID}
    /\ UNCHANGED <<clients, broadcast, eps, args, cli, reply, err, disp, tasks,
                   ncalls, qlog, snaps, evicted, left, devicted, dleft>>

\* c.broadcast <- MessageArgs{Sender: args.ID, Text: leaveMsg}; return nil
UnregisterEnqueue(c) ==
    /\ Goto(c, "unreg_enq", "done")
    /\ ChanSend(MessageArgs(args[c].ID, LeaveMsg(args[c].ID)))
    /\ left' = IF args[c].ID \in unregd THEN left \cup {args[c].ID} ELSE left
    /\ UNCHANGED <<mu, msgs, clients, eps, args, cli, reply, err, disp, tasks, ncalls,
                   dequeued, snaps, evicted, unregd, devicted, dleft>>

----------------------------------------------------------------------------
(* The broadcaster goroutine of NewChatServer *)

\* Dequeue that first waits for every delivery goroutine started so far to end
DequeueAfterDeliveries ==
    /\ dpc = "recv"
    /\ Len(broadcast) > 0
    /\ \A t \in DOMAIN tasks : tasks[t].pc = "done"
    /\ dmsg' = Head(broadcast)
    /\ broadcast' = Tail(broadcast)
    /\ dequeued' = Append(dequeued, Head(broadcast))
    /\ devicted' = evicted
    /\ dleft' = left
    /\ dpc' = "d_lock"
    /\ UNCHANGED <<mu, msgs, clients, eps, pc, args, cli, reply, err, dsnap, tasks,
                   ncalls, enqueued, snaps, evicted, unregd, left>>

\* for msg := range c.broadcast
Dequeue ==
    /\ dpc = "recv"
    /\ Len(broadcast) > 0
    /\ dmsg' = Head(broadcast)
    /\ broadcast' = Tail(broadcast)
    /\ dequeued' = Append(dequeued, Head(broadcast))
    /\ devicted' = evicted
    /\ dleft' = left
    /\ dpc' = "d_lock"
    /\ UNCHANGED <<mu, msgs, clients, eps, pc, args, cli, reply, err, dsnap, tasks,
                   ncalls, enqueued, snaps, evicted, unregd, left>>

\* the goroutine started for recipient id of message number seq
NewTask(seq, m, snap, id) ==
    [seq |-> seq, id |-> id, cli |-> snap[id], m |-> m,
     pc |-> "call", tries |-> 0, ok |-> FALSE]

\* RangeLoop without the test of msg.Sender
RECURSIVE RangeLoopEcho(_, _, _, _, _)
RangeLoopEcho(ts, seq, m, snap, todo) ==
    IF todo = {} THEN ts
    ELSE LET id == CHOOSE x \in todo : TRUE
         IN RangeLoopEcho(Append(ts, NewTask(seq, m, snap, id)), seq, m, snap, todo \ {id})

\* for id, cli := range clients { if id == msg.Sender { continue };
\* go func(id, cli, m) {...}(id, cli, msg) }
\* The loop only starts goroutines, which no other thread can tell from
\* goroutines that started and have not run yet: it is one step with the snapshot.
RECURSIVE RangeLoop(_, _, _, _, _)
RangeLoop(ts, seq, m, snap, todo) ==
    IF todo = {} THEN ts
    ELSE LET id == CHOOSE x \in todo : TRUE
         IN RangeLoop(IF id = m.Sender THEN ts ELSE Append(ts, NewTask(seq, m, snap, id)),
                      seq, m, snap, todo \ {id})

\* c.mu.Lock(); clients := copy of c.clients; c.mu.Unlock(); the range loop
DispSnapshot ==
    /\ dpc = "d_lock"
    /\ Locked(DispT)
    /\ dsnap' = clients
    /\ snaps' = Append(snaps, clients)
    /\ tasks' = RangeLoop(tasks, Len(dequeued), dmsg, clients, DOMAIN clients)
    /\ dpc' = "recv"
    /\ UNCHANGED <<srv, eps, pc, args, cli, reply, err, dmsg, ncalls, qlog, ghost>>

----------------------------------------------------------------------------
(* A delivery goroutine *)

TaskStep(t, from, to) ==
    /\ tasks[t].pc = from
    /\ tasks' = [tasks EXCEPT ![t].pc = to]

\* err := cli.Call("Client.Receive", m, &reply) returns nil: the goroutine ends
DeliverOk(t) ==
    /\ tasks[t].pc = "call"
    /\ closes[tasks[t].cli] = 0
    /\ tasks' = [tasks EXCEPT ![t].pc = "done", ![t].tries = @ + 1, ![t].ok = TRUE]
    /\ UNCHANGED <<mu, srv, eps, pc, args, cli, reply, err, disp, ncalls, qlog, snaps, ghost>>

\* DeliverFail that calls again instead of giving the recipient up
DeliverFailRetry(t) ==
    /\ tasks[t].pc = "call"
    /\ tasks[t].tries < 2
    /\ tasks' = [tasks EXCEPT ![t].tries = @ + 1]
    /\ UNCHANGED <<mu, srv, eps, pc, args, cli, reply, err, disp, ncalls, qlog, snaps, ghost>>

\* err := cli.Call(...) returns an error (ErrShutdown after Close, or the network)
DeliverFail(t) ==
    /\ tasks[t].pc = "call"
    /\ tasks' = [tasks EXCEPT ![t].pc = "t_lock", ![t].tries = @ + 1]
    /\ UNCHANGED <<mu, srv, eps, pc, args, cli, reply, err, disp, ncalls, qlog, snaps, ghost>>

\* c.mu.Lock(); cli.Close()
TaskClose(t) ==
    /\ TaskStep(t, "t_lock", "t_delete")
    /\ Lock(TaskT(t))
    /\ closes' = [closes EXCEPT ![tasks[t].cli] = @ + 1]
    /\ UNCHANGED <<srv, owner, pc, args, cli, reply, err, disp, ncalls, qlog, snaps, ghost>>

\* TaskDelete without the delete
TaskDeleteKeeps(t) ==
    /\ TaskStep(t, "t_delete", "done")
    /\ Unlock(TaskT(t))
    /\ evicted' = evicted \cup {tasks[t].id}
    /\ UNCHANGED <<srv, eps, pc, args, cli, reply, err, disp, ncalls,
                   qlog, snaps, unregd, left, devicted, dleft>>

\* delete(c.clients, id); c.mu.Unlock(): the goroutine ends
TaskDelete(t) ==
    /\ TaskStep(t, "t_delete", "done")
    /\ Unlock(TaskT(t))
    /\ clients' = MapDelete(clients, tasks[t].id)
    /\ evicted' = evicted \cup {tasks[t].id}
    /\ UNCHANGED <<msgs, broadcast, eps, pc, args, cli, reply, err, disp, ncalls,
                   qlog, snaps, unregd, left, devicted, dleft>>

----------------------------------------------------------------------------
\* every step of the server but the arrival of a Send
Steps ==
    \/ \E c \in Callers : CallRegister(c)
    \/ \E c \in Callers : RegisterDialOk(c)
    \/ \E c \in Callers : RegisterDialFail(c)
    \/ \E c \in Callers : RegisterPut(c)
    \/ \E c \in Callers : RegisterAppend(c)
    \/ \E c \in Callers : RegisterEnqueue(c)
    \/ \E c \in Callers : CallUnregister(c)
    \/ \E c \in Callers : UnregisterRemove(c)
    \/ \E c \in Callers : UnregisterAppend(c)
    \/ \E c \in Callers : UnregisterEnqueue(c)
    \/ \E c \in Callers : SendAppend(c)
    \/ \E c \in Callers : SendCopy(c)
    \/ \E c \in Callers : SendEnqueue(c)
    \/ \E c \in Callers : CallHistory(c)
    \/ \E c \in Callers : HistoryCopy(c)
    \/ Dequeue
    \/ DispSnapshot
    \/ \E t \in DOMAIN tasks : DeliverOk(t)
    \/ \E t \in DOMAIN tasks : DeliverFail(t)
    \/ \E t \in DOMAIN tasks : TaskClose(t)
    \/ \E t \in DOMAIN tasks : TaskDelete(t)

Next ==
    \/ \E c \in Callers : CallSend(c)
    \/ Steps

Spec == Init /\ [][Next]_vars

----------------------------------------------------------------------------
(* The client program *)

\* fmt.Sprintf("%s: %s", *name, text)
ClientText(name, text) == name \o ": " \o text

\* formatIncoming: what Receive prints for a message
formatIncoming(m) == m.Text

\* the client of user id has registered and none of its Register calls is running
Connected(id) ==
    /\ JoinMsg(id) \in Range(msgs)
    /\ \A c \in Callers : args[c].op = "Register" /\ args[c].ID = id => pc[c] = "done"

\* args := MessageArgs{Sender: *name, Text: fmt.Sprintf("%s: %s", *name, text)};
\* server.Call("ChatServer.Send", args, &reply)
ClientSend(c) ==
    /\ \E id \in IDs, t \in Texts :
         /\ Connected(id)
         /\ Begin(c, [NoArgs EXCEPT !.op = "Send", !.Sender = id,
                                    !.Text = ClientText(id, t), !.Line = t], "send_lock")
    /\ cli' = [cli EXCEPT ![c] = 0]
    /\ err' = [err EXCEPT ![c] = FALSE]
    /\ UNCHANGED <<mu, srv, eps, disp, tasks, qlog, snaps, ghost>>

\* the server with its Send calls made by client programs
ClientNext ==
    \/ \E c \in Callers : ClientSend(c)
    \/ Steps

ClientSpec == Init /\ [][ClientNext]_vars

\* The steps that need nothing but the processor: a thread inside a critical
\* section reaches its Unlock, a thread at a channel send sends once the channel
\* has room, the broadcaster receives once the channel holds a message and
\* takes its snapshot once the mutex is free. The Go scheduler runs every
\* runnable goroutine; it promises nothing about the network, so the dial and
\* the delivery calls are left without fairness: a Receive call may hang forever.
Release ==
    \/ \E c \in Callers : RegisterAppend(c) \/ UnregisterAppend(c) \/ SendCopy(c)
    \/ \E t \in DOMAIN tasks : TaskDelete(t)

Enqueue(c) == RegisterEnqueue(c) \/ UnregisterEnqueue(c) \/ SendEnqueue(c)

FairSpec ==
    /\ Spec
    /\ WF_vars(Release)
    /\ WF_vars(Dequeue)
    /\ WF_vars(DispSnapshot)
    /\ \A c \in Callers : WF_vars(Enqueue(c))

\* A thread waiting in c.mu.Lock() gets the mutex: sync.Mutex hands a mutex
\* that is unlocked to a waiter. LockFairSpec adds that and Release to Spec, and
\* nothing else: the dial, the delivery calls, the channel and the broadcaster
\* may all stand still forever.
Acquire(c) == HistoryCopy(c) \/ SendAppend(c) \/ RegisterPut(c) \/ UnregisterRemove(c)

LockFairSpec ==
    /\ Spec
    /\ WF_vars(Release)
    /\ \A c \in Callers : WF_vars(Acquire(c))

----------------------------------------------------------------------------
(* Claims *)

Last(s) == s[Len(s)]

\* the calls that have passed the critical section of Send and hold its reply
SendReplied(c) == args[c].op = "Send" /\ pc[c] \in {"send_enq", "done"}

\* C1: the history snapshot a Send returns ends with "{sender}: {text}" of
\* that very call, whatever other calls ran concurrently.
C1_SendSnapshotEndsWithOwnEntry ==
    \A c \in Callers :
        SendReplied(c) =>
            /\ Len(reply[c]) > 0
            /\ Last(reply[c]) = Entry(args[c].Sender, args[c].Text)

\* a Send has returned a snapshot of several entries, and the log has grown since
C1_Witness ==
    \E c \in Callers :
        /\ SendReplied(c) /\ pc[c] = "done"
        /\ Len(reply[c]) >= 2
        /\ Len(msgs) > Len(reply[c])

\* C2: no delivery goroutine is ever started for the sender of the message it
\* carries, and the message it carries is the one taken off the queue.
C2_NoSelfEcho ==
    \A t \in DOMAIN tasks :
        /\ tasks[t].seq \in DOMAIN dequeued
        /\ tasks[t].m = dequeued[tasks[t].seq]
        /\ tasks[t].id # tasks[t].m.Sender

\* a message whose sender was in the snapshot has been delivered to someone else
C2_Witness ==
    \E t \in DOMAIN tasks :
        /\ tasks[t].tries = 1
        /\ tasks[t].m.Sender \in DOMAIN snaps[tasks[t].seq]

\* C3: the log only grows by appending, and every snapshot a caller holds
\* stays a prefix of the log.
C3_HistoryAppendOnly ==
    /\ [][IsPrefix(msgs, msgs')]_vars
    /\ [](\A c \in Callers : IsPrefix(reply[c], msgs))

\* a History call returned a non-empty snapshot and the log has grown since
C3_Witness ==
    \E c \in Callers :
        /\ args[c].op = "History" /\ pc[c] = "done"
        /\ Len(reply[c]) > 0
        /\ Len(msgs) > Len(reply[c])

\* the step of Register that ends the call where rpc.Dial failed
RegisterFails(c) == pc[c] = "reg_dial" /\ pc'[c] = "done"

\* C4: a Register whose dial fails returns an error and changes neither the
\* registry, nor the history, nor the broadcast queue.
C4_FailedRegisterChangesNothing ==
    [][\A c \in Callers :
          RegisterFails(c) =>
              /\ err'[c]
              /\ UNCHANGED <<clients, msgs, broadcast, enqueued>>]_vars

\* a Register has failed while the registry and the history were not empty
C4_Witness ==
    \E c \in Callers :
        /\ args[c].op = "Register" /\ pc[c] = "done" /\ err[c]
        /\ clients # <<>>
        /\ msgs # <<>>

\* the delivery goroutines started for the k-th dequeued message
TasksOf(k) == {t \in DOMAIN tasks : tasks[t].seq = k}

\* the broadcaster has finished with the message it dequeued last
Dispatched == dpc = "recv" /\ snaps # <<>>

\* C5: once the failure handler for recipient R has finished, R is not in the
\* registry, and until R registers again no message dequeued afterwards is
\* delivered to R.
C5_EvictedStaysOut ==
    /\ evicted \cap DOMAIN clients = {}
    /\ Dispatched =>
         /\ devicted \cap DOMAIN Last(snaps) = {}
         /\ \A t \in TasksOf(Len(snaps)) : tasks[t].id \notin devicted

\* a message of another sender was dequeued and dispatched after R's eviction
C5_Witness ==
    \E id \in evicted \cap devicted :
        /\ Dispatched
        /\ dmsg.Sender # id

\* the positions where a call is at its channel send
EnqPcs == {"reg_enq", "unreg_enq", "send_enq"}

\* the message a call sends on the channel
MsgOf(c) ==
    CASE args[c].op = "Register" -> MessageArgs(args[c].ID, JoinMsg(args[c].ID))
      [] args[c].op = "Unregister" -> MessageArgs(args[c].ID, LeaveMsg(args[c].ID))
      [] OTHER -> MessageArgs(args[c].Sender, args[c].Text)

\* C6: the queue never holds more than its capacity; a producer at a full
\* queue stays where it is; a producer that returns has appended its message;
\* the queue is exactly what was enqueued and not yet dequeued.
C6_QueueBoundedBlocking ==
    /\ [](Len(broadcast) <= QueueCap /\ enqueued = dequeued \o broadcast)
    /\ [][\A c \in Callers :
            pc[c] \in EnqPcs =>
                /\ Len(broadcast) = QueueCap => pc'[c] = pc[c]
                /\ pc'[c] # pc[c] => broadcast' = Append(broadcast, MsgOf(c))]_vars

\* the queue is full and a producer waits at its send
C6_Witness ==
    /\ Len(broadcast) = QueueCap
    /\ \E c \in Callers : pc[c] \in EnqPcs

\* C7: for every dispatched message the delivery goroutines are exactly one
\* per entry of the snapshot other than the sender, each to the endpoint the
\* snapshot holds, and each makes exactly one delivery call.
C7_RecipientsAreSnapshotMinusSender ==
    /\ \A t \in DOMAIN tasks : tasks[t].seq \in DOMAIN snaps
    /\ \A k \in DOMAIN snaps :
         LET rcpt == DOMAIN snaps[k] \ {dequeued[k].Sender}
         IN /\ {tasks[t].id : t \in TasksOf(k)} = rcpt
            /\ Cardinality(TasksOf(k)) = Cardinality(rcpt)
            /\ \A t \in TasksOf(k) :
                 /\ tasks[t].cli = snaps[k][tasks[t].id]
                 /\ tasks[t].tries = IF tasks[t].pc = "call" THEN 0 ELSE 1

\* a delivery is in flight while the registry holds an entry, not the sender's,
\* that the message's snapshot does not hold
C7_Witness ==
    \E t \in DOMAIN tasks :
        /\ tasks[t].pc = "call"
        /\ \E id \in DOMAIN clients \ {tasks[t].m.Sender} :
             \/ id \notin DOMAIN snaps[tasks[t].seq]
             \/ snaps[tasks[t].seq][id] # clients[id]

\* C8: every endpoint handle is closed at most once.
C8_AtMostOneClose == \A e \in DOMAIN closes : closes[e] <= 1

\* the endpoint is dialled and its Register has not stored it yet
Pending(e) == \E c \in Callers : pc[c] = "reg_lock" /\ cli[c] = e

\* C9: with the lock free, every endpoint a successful Register created is
\* the registry value of its identifier or has been closed.
C9_LeavesRegistryClosed ==
    mu = Free =>
        \A e \in DOMAIN closes :
            \/ Pending(e)
            \/ owner[e] \in DOMAIN clients /\ clients[owner[e]] = e
            \/ closes[e] > 0

Returned(c) == pc[c] = "done" /\ args[c].op # "none"

\* C11: Unregister, Send and History never return an error, whatever happens
\* to any delivery and whether or not the identifier is registered; a call
\* that returns an error is a Register whose dial failed, and it holds no
\* endpoint.
C11_OnlyRegisterFails ==
    \A c \in Callers :
        /\ err[c] => args[c].op = "Register" /\ cli[c] = 0 /\ pc[c] = "done"
        /\ Returned(c) /\ args[c].op \in {"Unregister", "Send", "History"} => ~err[c]

\* a Send has returned without error although a delivery of its own message
\* failed, and an Unregister of an identifier that was not registered has
\* returned without error
C11_Witness ==
    /\ \E c \in Callers :
          /\ Returned(c) /\ args[c].op = "Send" /\ ~err[c]
          /\ \E t \in DOMAIN tasks :
                /\ tasks[t].m = MsgOf(c)
                /\ tasks[t].tries = 1 /\ ~tasks[t].ok
    /\ \E c \in Callers :
          /\ Returned(c) /\ args[c].op = "Unregister" /\ ~err[c]
          /\ cli[c] = 0

\* the steps of Register inside its critical section
RegisterPuts(c) == pc[c] = "reg_lock" /\ pc'[c] = "reg_append"
RegisterAppends(c) == pc[c] = "reg_append" /\ pc'[c] = "reg_enq"

\* the number of occurrences of x in the sequence s
Count(x, s) == Cardinality({i \in DOMAIN s : s[i] = x})

\* C12: a Register whose dial succeeded, also for an identifier already in the
\* registry, maps the identifier to the endpoint it dialled and to nothing
\* else, leaves every other identifier's mapping as it was, and appends
\* exactly one "User {id} joined" entry: between taking the lock and releasing
\* it nothing else changes the registry or the log.
C12_ReRegisterOverwrites ==
    [][\A c \in Callers :
        /\ RegisterPuts(c) =>
              /\ DOMAIN clients' = DOMAIN clients \cup {args[c].ID}
              /\ clients'[args[c].ID] = cli[c]
              /\ \A x \in DOMAIN clients \ {args[c].ID} : clients'[x] = clients[x]
              /\ msgs' = msgs
        /\ pc[c] = "reg_append" =>
              /\ clients' = clients
              /\ clients[args[c].ID] = cli[c]
              /\ IF RegisterAppends(c)
                 THEN /\ msgs' = Append(msgs, JoinMsg(args[c].ID))
                      /\ Count(JoinMsg(args[c].ID), msgs')
                           = Count(JoinMsg(args[c].ID), msgs) + 1
                 ELSE msgs' = msgs
        /\ pc[c] = "reg_enq" /\ pc'[c] = "done" => UNCHANGED <<clients, msgs>>]_vars

\* a Register of an identifier that was registered before, with another
\* identifier in the registry, has overwritten the earlier endpoint and has
\* appended its join entry
C12_Witness ==
    \E c \in Callers :
        /\ args[c].op = "Register" /\ pc[c] = "reg_enq"
        /\ Count(JoinMsg(args[c].ID), msgs) = 2
        /\ \E e \in DOMAIN closes :
              /\ e # cli[c] /\ owner[e] = args[c].ID
              /\ closes[e] = 0 /\ ~Pending(e)
        /\ args[c].ID \in DOMAIN clients /\ clients[args[c].ID] = cli[c]
        /\ DOMAIN clients # {args[c].ID}

\* C13: whenever the lock is free, no identifier of the registry maps to an
\* endpoint that the server has closed.
C13_NoClosedEndpointRegistered ==
    mu = Free => \A id \in DOMAIN clients : closes[clients[id]] = 0

\* the lock is free and an identifier is in the registry again after an
\* earlier endpoint of it was closed by Unregister or by a failure handler
C13_Witness ==
    /\ mu = Free
    /\ \E e \in DOMAIN closes :
          /\ closes[e] > 0
          /\ owner[e] \in DOMAIN clients
          /\ clients[owner[e]] # e

\* C14: under FairSpec, where no delivery call is ever required to return,
\* every message enqueued is eventually dequeued (again and again the messages
\* dequeued are all the messages enqueued so far), and every Register,
\* Unregister or Send that has reached its channel send eventually returns.
C14_DispatchNeverWaits ==
    /\ []<>(dequeued = enqueued)
    /\ \A c \in Callers : (pc[c] \in EnqPcs) ~> (pc[c] = "done")

\* a later message has been dequeued and dispatched while the delivery call
\* of an earlier message has not returned
C14_Witness ==
    /\ Dispatched
    /\ \E t \in DOMAIN tasks :
          /\ tasks[t].pc = "call"
          /\ tasks[t].seq < Len(dequeued)

\* where a call waits in c.mu.Lock(), and where it is inside a critical section
LockPcs == {"hist_lock", "send_lock", "reg_lock", "unreg_lock"}
HeldPcs == {"send_copy", "reg_append", "unreg_append"}

\* C15: the mutex is held only between a Lock and the Unlock of the same
\* critical section: never by a call that dials or that is at its channel
\* send, never by a delivery goroutine inside its Receive call, never by the
\* broadcaster between two snapshots. Hence, under LockFairSpec, where
\* deliveries may hang and the queue may stay full forever, every call waiting
\* for the mutex gets through its critical section: History returns, the
\* others reach their channel send.
C15_LockOnlyForMemory ==
    /\ [](/\ mu # DispT
          /\ \A c \in Callers :
                /\ mu = CallerT(c) => pc[c] \in HeldPcs
                /\ pc[c] \in {"reg_dial"} \cup EnqPcs => mu # CallerT(c)
          /\ \A t \in DOMAIN tasks :
                /\ mu = TaskT(t) => tasks[t].pc = "t_delete"
                /\ tasks[t].pc = "call" => mu # TaskT(t))
    /\ \A c \in Callers : (pc[c] \in LockPcs) ~> (pc[c] \in EnqPcs \cup {"done"})

\* a History call has returned the log, the entry of a message included,
\* while the delivery call of that message has not returned
C15_Witness ==
    \E c \in Callers :
        /\ Returned(c) /\ args[c].op = "History"
        /\ \E t \in DOMAIN tasks :
              /\ tasks[t].pc = "call"
              /\ Entry(tasks[t].m.Sender, tasks[t].m.Text) \in Range(reply[c])

\* endpoint e, once dialled, has been put into the registry by its Register
Put(e) == ~Pending(e)

\* C16: the registry change and the history append of a Register or an
\* Unregister are one critical section. Whenever the mutex is free (the only
\* states in which History, Send, the broadcaster's snapshot or a failure
\* handler can read), no call is between its registry change and its append,
\* every identifier of the registry has a "User {id} joined" entry, the log
\* holds one join entry per endpoint ever put into the registry, and every
\* Unregister that has removed an endpoint has its leave entry in the log.
C16_MutationAndAppendAtomic ==
    mu = Free =>
        /\ \A c \in Callers : pc[c] \notin {"reg_append", "unreg_append"}
        /\ \A id \in DOMAIN clients : JoinMsg(id) \in Range(msgs)
        /\ \A id \in IDs :
              Count(JoinMsg(id), msgs)
                = Cardinality({e \in DOMAIN closes : owner[e] = id /\ Put(e)})
        /\ \A c \in Callers :
              args[c].op = "Unregister" /\ pc[c] \in {"unreg_enq", "done"}
                  => LeaveMsg(args[c].ID) \in Range(msgs)

\* the mutex is free right after a Register's critical section, with two
\* identifiers in the registry, while another thread is about to read
C16_Witness ==
    /\ mu = Free
    /\ Cardinality(DOMAIN clients) = 2
    /\ \E c \in Callers : pc[c] = "reg_enq"
    /\ \/ dpc = "d_lock"
       \/ \E c \in Callers : pc[c] \in {"hist_lock", "send_lock"}

\* the history entry of the call that caller c serves
HistEntry(c) ==
    CASE args[c].op = "Register"   -> JoinMsg(args[c].ID)
      [] args[c].op = "Unregister" -> LeaveMsg(args[c].ID)
      [] OTHER                     -> Entry(args[c].Sender, args[c].Text)

\* the history entry of the call that enqueued message m
EntryOfMsg(m) ==
    IF m.Text \in {JoinMsg(m.Sender), LeaveMsg(m.Sender)}
    THEN m.Text
    ELSE Entry(m.Sender, m.Text)

\* C17: a call reaches its channel send with its entry already in the history
\* and the mutex released, so that nothing orders its send with respect to the
\* appends and sends of other calls; the history and the queue can then
\* disagree on the order of two messages (C17_Witness is such a state).
C17_EnqueueAfterUnlock ==
    \A c \in Callers :
        pc[c] \in EnqPcs =>
            /\ mu # CallerT(c)
            /\ HistEntry(c) \in Range(msgs)
            /\ Len(enqueued) < Len(msgs)

\* two Sends: the entry appended to the history first belongs to the message
\* that was enqueued and dequeued second
C17_Witness ==
    /\ Len(msgs) = 2 /\ Len(dequeued) = 2
    /\ msgs[1] # msgs[2]
    /\ msgs[1] = Entry(dequeued[2].Sender, dequeued[2].Text)
    /\ msgs[2] = Entry(dequeued[1].Sender, dequeued[1].Text)

\* a failure handler ends, for a recipient whose identifier the registry maps
\* to another endpoint than the one whose call failed
StaleEviction(t) ==
    /\ tasks[t].pc = "t_delete" /\ tasks'[t].pc = "done"
    /\ tasks[t].id \in DOMAIN clients
    /\ clients[tasks[t].id] # tasks[t].cli

\* C18: the failure handler of a delivery to an endpoint that identifier id
\* no longer maps to leaves id's registry entry as it is.
C18_StaleFailureKeepsNewEntry ==
    [][\A t \in DOMAIN tasks :
        StaleEviction(t) =>
            /\ tasks[t].id \in DOMAIN clients'
            /\ clients'[tasks[t].id] = clients[tasks[t].id]]_vars

\* the positions of a call between its append and its channel send
AppendedPcs == EnqPcs \cup {"send_copy"}

\* C19: in every state the history holds exactly the entries of the messages
\* enqueued so far and of the calls that have appended and not yet enqueued,
\* each as often as it was enqueued or is pending; so its length is the
\* number of enqueued messages plus the number of such calls. A History call
\* changes neither the history nor the queue.
C19_EveryEntryBroadcastOnce ==
    /\ [](/\ Len(msgs) = Len(enqueued)
                           + Cardinality({c \in Callers : pc[c] \in AppendedPcs})
          /\ \A s \in Range(msgs) \cup {EntryOfMsg(m) : m \in Range(enqueued)} :
                Count(s, msgs)
                  = Cardinality({i \in DOMAIN enqueued : EntryOfMsg(enqueued[i]) = s})
                    + Cardinality({c \in Callers :
                                     pc[c] \in AppendedPcs /\ HistEntry(c) = s}))
    /\ [][\A c \in Callers :
            pc[c] = "hist_lock" /\ pc'[c] = "done"
                => UNCHANGED <<msgs, broadcast, enqueued>>]_vars

\* an Unregister of an identifier that was not registered has returned with
\* its leave message enqueued, a History call has returned, and a third call
\* has appended its entry and not yet enqueued its message
C19_Witness ==
    /\ \E c \in Callers :
          /\ Returned(c) /\ args[c].op = "History"
          /\ MessageArgs("a", LeaveMsg("a")) \in Range(enqueued)
          /\ JoinMsg("a") \notin Range(msgs)
    /\ \E c \in Callers : pc[c] \in AppendedPcs

\* C20: when the client program of user N sends the typed line T, the last
\* entry of the snapshot that Send returns, which is the entry the call
\* appended to the history, is "N: T", and it is the text that Receive prints
\* at the other clients for that message.
C20_HistoryEntryIsSenderColonLine ==
    \A c \in Callers :
        SendReplied(c) /\ args[c].Line # "" =>
            /\ Last(reply[c]) = args[c].Sender \o ": " \o args[c].Line
            /\ Last(reply[c]) = formatIncoming(MsgOf(c))


=============================================================================
